---- MODULE Spec2Model ----
(***************************************************************************)
(* A model of gifmaze's encoding pipeline: the bit packer (DataBlock), the *)
(* LZW compressor (Compression), the grid (Maze) and the frame engine      *)
(* (Animation) writing to a GIFSurface.                                    *)
(***************************************************************************)
EXTENDS Integers, Sequences, FiniteSets, TLC

\* ------------------------------------------------------------------ bounds
\* longest input of which every sequence over Symbols(m) is tried
MaxLen == 4
\* encode_bits calls on one DataBlock before it is dumped
MaxCalls == 258
\* the first calls are free; the later ones repeat the fill call
FreeCalls == 2
\* mark_cell calls in one run of the engine
MaxMarks == 2
\* frames written in one run of the engine
MaxFrames == 2
\* length of the generated long input (long enough to fill the code table)
LongLen == 4700
\* bits left in the compressor's stream by failed calls, beyond which no
\* further delay frame is tried
MaxStaleBits == 4
\* the symbols read after the run around the table reset is taken up
ResetRun == 100
\* bits left in the compressor's stream by failed flushes, beyond which no
\* further flush is tried
MaxFaultBits == 10

\* --------------------------------------------------------------- constants
\* Compression._max_codes
max_codes == 4096
\* the largest sub-block of dump_bytes
BlockSize == 255

VARIABLES
    \* DataBlock (Compression._stream)
    stream,            \* [bitstream |-> sequence of bytes, nbits |-> counter]
    \* Compression and the locals of one Compression.__call__
    min_code_length,
    input_data,
    pos,               \* number of symbols of input_data consumed by the loop
    code_length,
    next_code,
    code_table,
    pattern,
    pc,                \* "idle" | "loop" | "done" | "KeyError"
    result,            \* the bytes __call__ returned
    emitted,           \* the encode_bits calls <<num, size>> of the last step
    \* a DataBlock driven directly
    calls,             \* the encode_bits calls <<num, size>> made so far
    dumped,            \* the bytes dump_bytes returned
    bpc,               \* "open" | "dumped"
    \* Maze
    grid,              \* _grid: cell <<x, y>> |-> value
    num_changes,       \* _num_changes
    frame_box,         \* _frame_box: <<>> for None, else <<left, top, right, bottom>>
    \* Animation
    speed,
    delay,
    trans_index,       \* NoIndex for None
    cell_size,
    translation,
    colormap,
    \* GIFSurface
    color_depth,
    io,                \* _io: the byte sequences written, one per write call
    palette,           \* the global color table
    surface,           \* "none" before GIFSurface(...), then "open" | "closed"
    saved,             \* the bytes the last save wrote to its file
    \* the calls made on the engine
    last_op,           \* the operation called last
    raised,            \* the exception the last operation raised, "" for none
    last_arg,          \* the arguments of that call, where a claim reads them
    touched,           \* the cells marked since the last reset
    nmarks             \* the mark_cell calls made so far

callVars == <<min_code_length, input_data, pos, code_length, next_code,
              code_table, pattern, pc, result, emitted>>

bitVars == <<calls, dumped, bpc>>

mazeVars == <<grid, num_changes, frame_box>>

animVars == <<speed, delay, trans_index, cell_size, translation, colormap>>

surfaceVars == <<color_depth, io, palette, surface, saved>>

opVars == <<last_op, last_arg, raised, touched, nmarks>>

engineVars == <<mazeVars, animVars, surfaceVars, opVars>>

vars == <<stream, callVars, bitVars, engineVars>>

\* ------------------------------------------------------------ DataBlock
\* DataBlock.__init__
EmptyStream == [bitstream |-> <<>>, nbits |-> 0]

\* bin(num)[2:] for num >= 0: the binary digits, most significant first
RECURSIVE Bin(_)
Bin(num) == IF num < 2 THEN <<num>> ELSE Append(Bin(num \div 2), num % 2)

\* str.zfill(size): pad with zeros on the left up to size, never cut
ZFill(string, size) ==
    IF Len(string) >= size THEN string
    ELSE [i \in 1..size |-> IF i <= size - Len(string) THEN 0
                            ELSE string[i - (size - Len(string))]]

\* byte | (1 << k)
BitOr(byte, k) == IF (byte \div (2^k)) % 2 = 1 THEN byte ELSE byte + 2^k

\* one iteration of the loop of encode_bits
EncodeDigit(s, digit) ==
    LET bs1 == IF Len(s.bitstream) * 8 = s.nbits
               THEN Append(s.bitstream, 0) ELSE s.bitstream
        bs2 == IF digit = 1
               THEN [bs1 EXCEPT ![Len(bs1)] = BitOr(@, s.nbits % 8)]
               ELSE bs1
    IN  [bitstream |-> bs2, nbits |-> s.nbits + 1]

\* the iterations of the loop of encode_bits on the digits string[hi],
\* string[hi - 1], ..., string[lo], carried out half by half; each half works
\* on the stream the one before has left
RECURSIVE EncodeDigits(_, _, _, _)
EncodeDigits(s, string, hi, lo) ==
    IF hi < lo THEN s
    ELSE IF hi = lo THEN EncodeDigit(s, string[hi])
    ELSE LET mid == (lo + hi) \div 2
         IN  CHOOSE r \in {EncodeDigits(t, string, mid, lo) :
                               t \in {EncodeDigits(s, string, hi, mid + 1)}} : TRUE

\* the digits string[1..k] still to be written, last one first
EncodeReversed(s, string, k) == EncodeDigits(s, string, k, 1)

\* the digits written most significant first
EncodeBitsForward(s, num, size) ==
    LET string == ZFill(Bin(num), size)
        rev == [i \in 1..Len(string) |-> string[Len(string) + 1 - i]]
    IN  EncodeReversed(s, rev, Len(rev))

\* DataBlock.encode_bits
EncodeBits(s, num, size) ==
    LET string == ZFill(Bin(num), size)
    IN  EncodeReversed(s, string, Len(string))

\* the iterations of the while loop of dump_bytes: one for each 255 bytes that
\* leave more behind them
LoopBlocks(bs) == IF Len(bs) = 0 THEN 0 ELSE (Len(bs) - 1) \div BlockSize

\* the bytes the iterations lo..hi of that loop append, half by half
RECURSIVE FullBlocks(_, _, _)
FullBlocks(bs, lo, hi) ==
    IF lo > hi THEN <<>>
    ELSE IF lo = hi
    THEN <<BlockSize>> \o SubSeq(bs, BlockSize * (lo - 1) + 1, BlockSize * lo)
    ELSE FullBlocks(bs, lo, (lo + hi) \div 2)
         \o FullBlocks(bs, ((lo + hi) \div 2) + 1, hi)

\* what the loop leaves in _bitstream
LastBlock(bs) == SubSeq(bs, BlockSize * LoopBlocks(bs) + 1, Len(bs))

\* the tail of dump_bytes without its `len > 0` test
PackBlocksUnguarded(bs) ==
    FullBlocks(bs, 1, LoopBlocks(bs)) \o <<Len(LastBlock(bs))>> \o LastBlock(bs)

\* the loop and the tail of dump_bytes: the bytes packed from bitstream bs
PackBlocks(bs) ==
    FullBlocks(bs, 1, LoopBlocks(bs))
    \o (IF Len(LastBlock(bs)) > 0 THEN <<Len(LastBlock(bs))>> \o LastBlock(bs)
        ELSE <<>>)

\* DataBlock.dump_bytes: the bytes returned and the stream left behind
DumpBytes(s) == [bytes |-> PackBlocks(s.bitstream), stream |-> EmptyStream]

\* ----------------------------------------------------------- Compression
ClearCode(m) == 2^m
EndCode(m) == ClearCode(m) + 1

\* {(i,): i for i in range(1 << min_code_length)}
InitTable(m) == [p \in {<<i>> : i \in 0..(2^m - 1)} |-> p[1]]

\* the width grown one insertion early
GrowLengthEarly(nc, cl) == IF nc = 2^cl THEN cl + 1 ELSE cl

\* lines 134-135: the code length after next_code was incremented to nc
GrowLength(nc, cl) == IF nc = 2^cl + 1 THEN cl + 1 ELSE cl

\* the table reset one insertion late
TableFullLate(nc) == nc = max_codes + 1

\* line 136
TableFull(nc) == nc = max_codes

\* the code table after `code_table[pattern] = next_code`
TableInsert(tbl, pat, code) ==
    IF pat \in DOMAIN tbl THEN [tbl EXCEPT ![pat] = code]
    ELSE tbl @@ (pat :> code)

\* lines 116-123 on a compressor whose stream is s
LZWBegin(s, m) ==
    [code_length |-> m + 1,
     next_code   |-> EndCode(m) + 1,
     code_table  |-> InitTable(m),
     pattern     |-> <<>>,
     stream      |-> EncodeBits(s, ClearCode(m), m + 1),
     emitted     |-> << <<ClearCode(m), m + 1>> >>,
     status      |-> "ok"]

\* lines 125-140: one iteration of the loop, on symbol c
LZWIter(st, m, c) ==
    LET pat == Append(st.pattern, c)
    IN
    IF pat \in DOMAIN st.code_table
    THEN [st EXCEPT !.pattern = pat, !.emitted = <<>>]
    ELSE
      LET tbl    == TableInsert(st.code_table, pat, st.next_code)
          prefix == SubSeq(pat, 1, Len(pat) - 1)
      IN
      IF prefix \notin DOMAIN tbl
      THEN [st EXCEPT !.pattern = pat, !.code_table = tbl,
                      !.emitted = <<>>, !.status = "KeyError"]
      ELSE
        LET s1 == EncodeBits(st.stream, tbl[prefix], st.code_length)
            nc == st.next_code + 1
            cl == GrowLength(nc, st.code_length)
        IN
        IF TableFull(nc)
        THEN [code_length |-> m + 1,
              next_code   |-> EndCode(m) + 1,
              code_table  |-> InitTable(m),
              pattern     |-> <<c>>,
              stream      |-> EncodeBits(s1, ClearCode(m), cl),
              emitted     |-> << <<tbl[prefix], st.code_length>>,
                                 <<ClearCode(m), cl>> >>,
              status      |-> "ok"]
        ELSE [code_length |-> cl,
              next_code   |-> nc,
              code_table  |-> tbl,
              pattern     |-> <<c>>,
              stream      |-> s1,
              emitted     |-> << <<tbl[prefix], st.code_length>> >>,
              status      |-> "ok"]

\* lines 142-144: the last pattern, the end code, the packed bytes
LZWEnd(st, m) ==
    IF st.pattern \notin DOMAIN st.code_table
    THEN [status |-> "KeyError", bytes |-> <<>>, stream |-> st.stream,
          emitted |-> <<>>]
    ELSE
      LET s1 == EncodeBits(st.stream, st.code_table[st.pattern], st.code_length)
          s2 == EncodeBits(s1, EndCode(m), st.code_length)
          d  == DumpBytes(s2)
      IN  [status  |-> "ok",
           bytes   |-> <<m>> \o d.bytes \o <<0>>,
           stream  |-> d.stream,
           emitted |-> << <<st.code_table[st.pattern], st.code_length>>,
                          <<EndCode(m), st.code_length>> >>]

\* the loop of __call__ over data[lo..hi], carried out part by part; it stops
\* where an iteration raises
RECURSIVE LZWRange(_, _, _, _, _)
LZWRange(st, m, data, lo, hi) ==
    CASE st.status # "ok" -> st
      [] lo > hi -> st
      [] lo = hi -> LZWIter(st, m, data[lo])
      [] OTHER -> LZWRange(LZWRange(st, m, data, lo, lo + (hi - lo) \div 3), m, data,
                           lo + (hi - lo) \div 3 + 1, hi)

\* the loop of __call__ over data[k..]
LZWLoop(st, m, data, k) == LZWRange(st, m, data, k, Len(data))

\* Compression.__call__ as a whole, on a compressor whose stream is s
Compress(s, m, data) ==
    LET st == LZWLoop(LZWBegin(s, m), m, data, 1)
    IN  IF st.status # "ok"
        THEN [status |-> st.status, bytes |-> <<>>, stream |-> st.stream]
        ELSE LET e == LZWEnd(st, m)
             IN  [status |-> e.status, bytes |-> e.bytes, stream |-> e.stream]

\* ------------------------------------------------ a standard GIF decoder
\* the largest code size a GIF decoder reads
MaxCodeSize == 12

\* the payload of a compressed data block: <min_code_length> (<len> <len bytes>)* <0>
RECURSIVE StripBlocks(_, _)
StripBlocks(bytes, k) ==
    IF k > Len(bytes) THEN [ok |-> FALSE, payload |-> <<>>]
    ELSE IF bytes[k] = 0
         THEN [ok |-> k = Len(bytes), payload |-> <<>>]
         ELSE IF k + bytes[k] > Len(bytes) THEN [ok |-> FALSE, payload |-> <<>>]
              ELSE LET rest == StripBlocks(bytes, k + bytes[k] + 1)
                   IN  [ok |-> rest.ok,
                        payload |-> SubSeq(bytes, k + 1, k + bytes[k]) \o rest.payload]

\* bit number b (from 0) of the payload, least significant bit of each byte first
BitAt(payload, b) == (payload[(b \div 8) + 1] \div (2^(b % 8))) % 2

\* the bytes j..last as one number, the first byte the least significant
RECURSIVE WordAt(_, _, _)
WordAt(payload, j, last) ==
    IF j > last THEN 0 ELSE payload[j] + 256 * WordAt(payload, j + 1, last)

\* the number held by the size bits from bit b on, least significant first
ReadBits(payload, b, size) ==
    IF size = 0 THEN 0
    ELSE (WordAt(payload, (b \div 8) + 1, ((b + size - 1) \div 8) + 1) \div (2^(b % 8)))
             % (2^size)

\* the decoder's table: entry code + 1 holds the pattern of code
DecoderTable(m) == [i \in 1..(2^m + 2) |-> IF i <= 2^m THEN <<i - 1>> ELSE <<>>]

\* the decoder before its first code; prev = <<>> right after a clear code
DecodeStart(m) ==
    [status |-> "run", b |-> 0, size |-> m + 1, table |-> DecoderTable(m),
     prev |-> <<>>, data |-> <<>>, codes |-> <<>>]

\* the decoder reads one code
DecodeStep(payload, m, d) ==
    IF d.status # "run" THEN d
    ELSE IF d.b + d.size > 8 * Len(payload) THEN [d EXCEPT !.status = "bad"]
    ELSE
      LET code == ReadBits(payload, d.b, d.size)
          next == Len(d.table)
          read == [d EXCEPT !.b = d.b + d.size, !.codes = Append(d.codes, code)]
      IN
      IF code = ClearCode(m)
      THEN [read EXCEPT !.size = m + 1, !.table = DecoderTable(m), !.prev = <<>>]
      ELSE IF code = EndCode(m)
      THEN [read EXCEPT !.status = "ok"]
      ELSE IF d.prev = <<>>
      THEN IF code >= ClearCode(m) THEN [d EXCEPT !.status = "bad"]
           ELSE [read EXCEPT !.prev = <<code>>, !.data = Append(d.data, code)]
      ELSE IF code > next THEN [d EXCEPT !.status = "bad"]
      ELSE
        LET entry  == IF code < next THEN d.table[code + 1]
                      ELSE Append(d.prev, d.prev[1])
            table2 == IF next < max_codes
                      THEN Append(d.table, Append(d.prev, entry[1]))
                      ELSE d.table
            size2  == IF Len(table2) = 2^d.size /\ d.size < MaxCodeSize
                          /\ next < max_codes
                      THEN d.size + 1 ELSE d.size
        IN  [read EXCEPT !.size = size2, !.table = table2, !.prev = entry,
                         !.data = d.data \o entry]

\* the decoding loop: n codes are read, unless the decoder stops before
RECURSIVE DecodeFrom(_, _, _, _)
DecodeFrom(payload, m, d, n) ==
    IF n = 0 \/ d.status # "run" THEN d
    ELSE IF n = 1 THEN DecodeStep(payload, m, d)
    ELSE DecodeFrom(payload, m, DecodeFrom(payload, m, d, n \div 2), n - (n \div 2))

\* the symbols and the codes a standard decoder reads from a compressed data block
Decode(bytes) ==
    IF Len(bytes) < 2 \/ bytes[1] + 1 > MaxCodeSize \/ bytes[1] < 2
    THEN [ok |-> FALSE, data |-> <<>>, codes |-> <<>>]
    ELSE LET p == StripBlocks(bytes, 2)
         IN  IF ~p.ok THEN [ok |-> FALSE, data |-> <<>>, codes |-> <<>>]
             ELSE LET d == DecodeFrom(p.payload, bytes[1], DecodeStart(bytes[1]),
                                      8 * Len(p.payload) + 1)
                  IN  [ok |-> d.status = "ok", data |-> d.data, codes |-> d.codes]

\* ------------------------------------------------------------------- Maze
\* the maze of the runs: width and height
MazeSize == <<3, 3>>

Cells == (0..(MazeSize[1] - 1)) \X (0..(MazeSize[2] - 1))

\* the values the runs mark cells with: Maze.TREE, Maze.PATH
CellValues == {1, 2}

Min(a, b) == IF a < b THEN a ELSE b
Max(a, b) == IF a > b THEN a ELSE b

\* the frame box with its top edge never moved
MarkBoxTopKept(box, x, y) ==
    IF box # <<>>
    THEN <<Min(x, box[1]), box[2], Max(x, box[3]), Max(y, box[4])>>
    ELSE <<x, y, x, y>>

\* mark_cell, lines 89-94: the frame box after cell <<x, y>> was marked
MarkBox(box, x, y) ==
    IF box # <<>>
    THEN <<Min(x, box[1]), Min(y, box[2]), Max(x, box[3]), Max(y, box[4])>>
    ELSE <<x, y, x, y>>

\* ------------------------------------------------------ encoder's blocks
\* None, for trans_index
NoIndex == -1

\* struct.pack: an unsigned short, low byte first, and the values it takes
PackH(v) == <<v % 256, v \div 256>>
FitsH(v) == v \in 0..65535
FitsB(v) == v \in 0..255

\* the block without its transparency
GraphicsControlBlockOpaque(d, t) == <<33, 249, 4, 4>> \o PackH(d) \o <<0, 0>>

\* graphics_control_block(delay, trans_index)
GraphicsControlBlock(d, t) ==
    IF t = NoIndex
    THEN <<33, 249, 4, 4>> \o PackH(d) \o <<0, 0>>
    ELSE <<33, 249, 4, 5>> \o PackH(d) \o <<t, 0>>

\* image_descriptor(left, top, width, height, byte=0)
ImageDescriptor(left, top, width, height) ==
    <<44>> \o PackH(left) \o PackH(top) \o PackH(width) \o PackH(height) \o <<0>>

\* a | b for a, b >= 0
RECURSIVE OrBits(_, _)
OrBits(a, b) ==
    IF a = 0 THEN b
    ELSE IF b = 0 THEN a
    ELSE (IF a % 2 = 1 \/ b % 2 = 1 THEN 1 ELSE 0) + 2 * OrBits(a \div 2, b \div 2)

\* 0b10000000 | (color_depth - 1) | (color_depth - 1) << 4, which is -1 for
\* color_depth 0
ScreenFlags(d) ==
    IF d >= 1 THEN OrBits(128, OrBits(d - 1, 16 * (d - 1))) ELSE 0 - 1

\* screen_descriptor(width, height, color_depth), where struct.pack takes the values
ScreenDescriptor(width, height, d) ==
    <<71, 73, 70, 56, 57, 97>> \o PackH(width) \o PackH(height)
        \o <<ScreenFlags(d), 0, 0>>

\* loop_control_block(loop)
LoopControlBlock(n) ==
    <<33, 255, 11, 78, 69, 84, 83, 67, 65, 80, 69, 50, 46, 48, 3, 1>>
        \o PackH(n) \o <<0>>

\* the palette kept whatever its length
GlobalColorTableUncut(d, colors) ==
    IF \E i \in DOMAIN colors : ~FitsB(colors[i])
    THEN [status |-> "ValueError", palette |-> <<>>]
    ELSE IF Len(colors) < 3 * 2^d
    THEN [status |-> "ValueError", palette |-> <<>>]
    ELSE [status |-> "ok", palette |-> colors]

\* global_color_table(color_depth, palette)
GlobalColorTable(d, colors) ==
    IF \E i \in DOMAIN colors : ~FitsB(colors[i])
    THEN [status |-> "ValueError", palette |-> <<>>]
    ELSE IF Len(colors) < 3 * 2^d
    THEN [status |-> "ValueError", palette |-> <<>>]
    ELSE [status |-> "ok", palette |-> SubSeq(colors, 1, 3 * 2^d)]

\* -------------------------------------------------------------- GIFSurface
\* [0] * (3 * 1 << color_depth)
DefaultPalette(d) == [i \in 1..(3 * 2^d) |-> 0]

\* set_lzw_compress: max(2, min(12, min_code_length))
LzwLength(n) == Max(2, Min(12, n))

\* [color] * n
Solid(color, n) == [i \in 1..n |-> color]

\* rectangle: the status, and the bytes it hands to write
RectangleFrame(left, top, width, height, color) ==
    IF ~(FitsH(left) /\ FitsH(top) /\ FitsH(width) /\ FitsH(height))
    THEN [status |-> "struct.error", bytes |-> <<>>]
    ELSE LET r == Compress(EmptyStream, 2, Solid(color, width * height))
         IN  IF r.status # "ok" THEN [status |-> r.status, bytes |-> <<>>]
             ELSE [status |-> "ok",
                   bytes  |-> ImageDescriptor(left, top, width, height) \o r.bytes]

\* _gif_header
GifHeader(sz, d, pal, lp) ==
    IF ~(FitsH(sz[1]) /\ FitsH(sz[2]) /\ FitsB(ScreenFlags(d)) /\ FitsH(lp))
    THEN [status |-> "struct.error", bytes |-> <<>>]
    ELSE [status |-> "ok",
          bytes  |-> ScreenDescriptor(sz[1], sz[2], d) \o pal \o LoopControlBlock(lp)]

\* _io.getvalue(): the bytes of the writes w[k..], one after the other
RECURSIVE GetValue(_, _)
GetValue(w, k) == IF k > Len(w) THEN <<>> ELSE w[k] \o GetValue(w, k + 1)

\* save, lines 107-109: the bytes written to the file
SaveFile(header, w) == header \o GetValue(w, 1) \o <<59>>

\* ---------------------------------------------------------------- Animation
\* _encode_frame, lines 80-83: the cell rectangle of the frame
FrameCells(box) ==
    IF box # <<>> THEN box ELSE <<0, 0, MazeSize[1] - 1, MazeSize[2] - 1>>

\* a cell value that is no key of the colormap
Missing == -1

\* the pixels of each cell taken as cs * cs consecutive pixels
FramePixelsBlockwise(g, cmap, box, cs) ==
    LET left   == box[1]
        top    == box[2]
        width  == box[3] - box[1] + 1
        height == box[4] - box[2] + 1
    IN  [k \in 1..(width * height * cs * cs) |->
            LET i   == k - 1
                y   == i \div (width * cs * cs)
                x   == (i % (width * cs * cs)) \div (cs * cs)
                val == g[<<x + left, y + top>>]
            IN  IF val \in DOMAIN cmap THEN cmap[val] ELSE Missing]

\* get_frame_pixels: the color indices of the frame, Missing where the lookup fails
FramePixels(g, cmap, box, cs) ==
    LET left   == box[1]
        top    == box[2]
        width  == box[3] - box[1] + 1
        height == box[4] - box[2] + 1
    IN  [k \in 1..(width * height * cs * cs) |->
            LET i   == k - 1
                y   == i \div (width * cs * cs)
                x   == (i % (width * cs)) \div cs
                val == g[<<x + left, y + top>>]
            IN  IF val \in DOMAIN cmap THEN cmap[val] ELSE Missing]

\* the first place where the pixel generator raises, 0 when it never does
FirstMissing(pixels) ==
    IF \E k \in DOMAIN pixels : pixels[k] = Missing
    THEN CHOOSE k \in DOMAIN pixels :
             pixels[k] = Missing /\ \A j \in 1..(k - 1) : pixels[j] # Missing
    ELSE 0

\* the pixels the loop of Compression.__call__ takes from the generator
ConsumedPixels(pixels) ==
    IF FirstMissing(pixels) = 0 THEN pixels
    ELSE SubSeq(pixels, 1, FirstMissing(pixels) - 1)

\* surface.compress(get_frame_pixels()): the generator is consumed by the loop
\* of Compression.__call__, which ends where the generator raises
CompressPixels(s, m, pixels) ==
    LET k == FirstMissing(pixels)
    IN  IF k = 0 THEN Compress(s, m, pixels)
        ELSE LET st == LZWLoop(LZWBegin(s, m), m, SubSeq(pixels, 1, k - 1), 1)
             IN  [status |-> "KeyError", bytes |-> <<>>, stream |-> st.stream]

\* set_colormap: self.colormap.update(cmap)
SetColormap(cmap, upd) ==
    [k \in (DOMAIN cmap) \cup (DOMAIN upd) |-> IF k \in DOMAIN upd THEN upd[k] ELSE cmap[k]]

\* pad_delay_frame(delay) with transparent index t, on a compressor of code
\* length m whose stream is s
PadFrame(d, t, s, m) ==
    IF ~(FitsH(d) /\ (t = NoIndex \/ FitsB(t)))
    THEN [status |-> "struct.error", bytes |-> <<>>, stream |-> s]
    ELSE LET r == Compress(s, m, <<t>>)
         IN  IF r.status # "ok"
             THEN [status |-> r.status, bytes |-> <<>>, stream |-> r.stream]
             ELSE [status |-> "ok",
                   bytes  |-> GraphicsControlBlock(d, t) \o ImageDescriptor(0, 0, 1, 1)
                              \o r.bytes,
                   stream |-> r.stream]

\* a frame only once the counter has passed the speed
RefreshDueLate(n, sp) == n > sp

\* refresh_frame, line 67
RefreshDue(n, sp) == n >= sp

\* a frame only for more than one remaining change
ChangesRemainMany(n) == n > 1

\* clear_remaining_changes, line 72
ChangesRemain(n) == n > 0

\* _encode_frame: the status, the bytes returned and the compressor's stream
EncodeFrame(g, box, cmap, cs, tr, d, t, s, m) ==
    LET b      == FrameCells(box)
        width  == b[3] - b[1] + 1
        height == b[4] - b[2] + 1
        left   == cs * b[1] + tr[1]
        top    == cs * b[2] + tr[2]
    IN  IF ~(FitsH(d) /\ (t = NoIndex \/ FitsB(t)))
        THEN [status |-> "struct.error", bytes |-> <<>>, stream |-> s]
        ELSE IF ~(FitsH(left) /\ FitsH(top) /\ FitsH(cs * width) /\ FitsH(cs * height))
        THEN [status |-> "struct.error", bytes |-> <<>>, stream |-> s]
        ELSE LET r == CompressPixels(s, m, FramePixels(g, cmap, b, cs))
             IN  IF r.status # "ok"
                 THEN [status |-> r.status, bytes |-> <<>>, stream |-> r.stream]
                 ELSE [status |-> "ok",
                       bytes  |-> GraphicsControlBlock(d, t)
                                  \o ImageDescriptor(left, top, cs * width, cs * height)
                                  \o r.bytes,
                       stream |-> r.stream]

\* ------------------------------------------------- inputs of the compressor
\* min_code_length: an integer between 2 and 12
MinCodeLengths == 2..12

\* the symbols the short inputs are made of: both ends of the alphabet
Symbols(m) == {0, 1, 2^m - 1}

RECURSIVE SeqsUpTo(_, _)
SeqsUpTo(S, n) ==
    IF n = 0 THEN {<<>>}
    ELSE LET shorter == SeqsUpTo(S, n - 1)
         IN  shorter \cup {Append(s, x) : s \in {t \in shorter : Len(t) = n - 1}, x \in S}

\* the code lengths whose long input is run
LongCodeLengths == {8, 11}

\* a long input over [0, 2^m): strides growing block by block
LongInput(m) == [i \in 1..LongLen |-> ((i - 1) * (1 + (i - 1) \div (2^m))) % (2^m)]

Inputs(m) ==
    SeqsUpTo(Symbols(m), MaxLen)
    \cup (IF m \in LongCodeLengths THEN {LongInput(m)} ELSE {})

\* no maze, animation or surface: Animation.__init__'s defaults
NoEngine ==
    /\ grid = <<>>
    /\ num_changes = 0
    /\ frame_box = <<>>
    /\ speed = 10
    /\ delay = 5
    /\ trans_index = NoIndex
    /\ cell_size = 5
    /\ translation = <<0, 0>>
    /\ colormap = <<>>
    /\ color_depth = 2
    /\ io = <<>>
    /\ palette = <<>>
    /\ surface = "none"
    /\ saved = <<>>
    /\ last_op = ""
    /\ last_arg = <<>>
    /\ raised = ""
    /\ touched = {}
    /\ nmarks = 0

\* ------------------------------------------------------------- the machine
InitLZW ==
    /\ stream = EmptyStream
    /\ min_code_length \in MinCodeLengths
    /\ input_data \in Inputs(min_code_length)
    /\ pos = 0
    /\ code_length = 0
    /\ next_code = 0
    /\ code_table = <<>>
    /\ pattern = <<>>
    /\ pc = "idle"
    /\ result = <<>>
    /\ emitted = <<>>
    /\ calls = <<>>
    /\ dumped = <<>>
    /\ bpc = "open"
    /\ NoEngine

\* Compression.__call__, lines 116-123
Call ==
    /\ pc = "idle"
    /\ LET st == LZWBegin(stream, min_code_length)
       IN  /\ code_length' = st.code_length
           /\ next_code' = st.next_code
           /\ code_table' = st.code_table
           /\ pattern' = st.pattern
           /\ stream' = st.stream
           /\ emitted' = st.emitted
    /\ pos' = 0
    /\ pc' = "loop"
    /\ UNCHANGED <<min_code_length, input_data, result, bitVars, engineVars>>

\* Compression.__call__, lines 124-140: one symbol
Loop ==
    /\ pc = "loop"
    /\ pos < Len(input_data)
    /\ LET st == LZWIter([code_length |-> code_length, next_code |-> next_code,
                          code_table |-> code_table, pattern |-> pattern,
                          stream |-> stream, emitted |-> <<>>, status |-> "ok"],
                         min_code_length, input_data[pos + 1])
       IN  /\ code_length' = st.code_length
           /\ next_code' = st.next_code
           /\ code_table' = st.code_table
           /\ pattern' = st.pattern
           /\ stream' = st.stream
           /\ emitted' = st.emitted
           /\ pc' = IF st.status = "ok" THEN "loop" ELSE st.status
    /\ pos' = pos + 1
    /\ UNCHANGED <<min_code_length, input_data, result, bitVars, engineVars>>

\* Compression.__call__, lines 142-144
Return ==
    /\ pc = "loop"
    /\ pos = Len(input_data)
    /\ LET e == LZWEnd([code_length |-> code_length, next_code |-> next_code,
                        code_table |-> code_table, pattern |-> pattern,
                        stream |-> stream, emitted |-> <<>>, status |-> "ok"],
                       min_code_length)
       IN  /\ stream' = e.stream
           /\ emitted' = e.emitted
           /\ result' = e.bytes
           /\ pc' = IF e.status = "ok" THEN "done" ELSE e.status
    /\ UNCHANGED <<min_code_length, input_data, pos, code_length, next_code,
                   code_table, pattern, bitVars, engineVars>>

NextLZW == Call \/ Loop \/ Return

SpecLZW == InitLZW /\ [][NextLZW]_vars

\* ------------------------------------- the machine around the table reset
\* the symbols of the long input already read when the run is taken up, a
\* little before next_code reaches max_codes
ResetStart(m) == IF m = 8 THEN 4686 ELSE 2041

\* a call on a long input, taken up after ResetStart symbols of the loop
InitReset ==
    /\ min_code_length \in LongCodeLengths
    /\ input_data = SubSeq(LongInput(min_code_length), 1,
                           Min(LongLen, ResetStart(min_code_length) + ResetRun))
    /\ pos = ResetStart(min_code_length)
    /\ \E st \in {LZWRange(LZWBegin(EmptyStream, min_code_length), min_code_length,
                            input_data, 1, pos)} :
           /\ code_length = st.code_length
           /\ next_code = st.next_code
           /\ code_table = st.code_table
           /\ pattern = st.pattern
           /\ stream = st.stream
           /\ emitted = st.emitted
    /\ pc = "loop"
    /\ result = <<>>
    /\ calls = <<>>
    /\ dumped = <<>>
    /\ bpc = "open"
    /\ NoEngine

NextReset == Loop \/ Return

SpecReset == InitReset /\ [][NextReset]_vars

\* --------------------------------------------- a DataBlock driven directly
\* the calls tried: zero and one bit, a code of 3 bits, a code wider than its
\* size, a full byte, alternating codes of 12 and of 16 bits
Pairs == {<<0, 1>>, <<1, 1>>, <<6, 3>>, <<4, 2>>, <<255, 8>>, <<2730, 12>>,
          <<43690, 16>>}

\* the call that fills the buffer up
FillCall == <<43690, 16>>

\* after its free calls the caller goes on only by repeating the fill call
NextCalls ==
    IF Len(calls) < FreeCalls THEN Pairs
    ELSE {c \in {FillCall} : calls[Len(calls)] = c}

InitBits ==
    /\ stream = EmptyStream
    /\ calls = <<>>
    /\ dumped = <<>>
    /\ bpc = "open"
    /\ min_code_length = 2
    /\ input_data = <<>>
    /\ pos = 0
    /\ code_length = 0
    /\ next_code = 0
    /\ code_table = <<>>
    /\ pattern = <<>>
    /\ pc = "idle"
    /\ result = <<>>
    /\ emitted = <<>>
    /\ NoEngine

\* DataBlock.encode_bits
EncodeBitsCall ==
    /\ bpc = "open"
    /\ Len(calls) < MaxCalls
    /\ \E c \in NextCalls :
          /\ stream' = EncodeBits(stream, c[1], c[2])
          /\ calls' = Append(calls, c)
    /\ UNCHANGED <<dumped, bpc, callVars, engineVars>>

\* DataBlock.dump_bytes
DumpBytesCall ==
    /\ bpc = "open"
    /\ LET d == DumpBytes(stream)
       IN  /\ dumped' = d.bytes
           /\ stream' = d.stream
    /\ bpc' = "dumped"
    /\ UNCHANGED <<calls, callVars, engineVars>>

NextBits == EncodeBitsCall \/ DumpBytesCall

SpecBits == InitBits /\ [][NextBits]_vars

\* ------------------------------------------------------ the frame engine
\* the configurations of the runs
ColorDepths == {2}
Speeds == {1, 2}
CellSizes == {2}
Translations == {<<3, 1>>}

\* GIFSurface(w, h, color_depth), Animation(surface), set_control(speed=...),
\* Maze(width, height, None), add_maze(maze, cell_size, translation)
InitAnim ==
    /\ color_depth \in ColorDepths
    /\ io = <<>>
    /\ palette = DefaultPalette(color_depth)
    /\ surface = "open"
    /\ saved = <<>>
    /\ min_code_length = LzwLength(color_depth)
    /\ stream = EmptyStream
    /\ grid = [c \in Cells |-> 0]
    /\ num_changes = 0
    /\ frame_box = <<>>
    /\ speed \in Speeds
    /\ delay = 5
    /\ trans_index = NoIndex
    /\ cell_size \in CellSizes
    /\ translation \in Translations
    /\ colormap = [i \in 0..(2^color_depth - 1) |-> i]
    /\ last_op = ""
    /\ last_arg = <<>>
    /\ raised = ""
    /\ touched = {}
    /\ nmarks = 0
    /\ input_data = <<>>
    /\ pos = 0
    /\ code_length = 0
    /\ next_code = 0
    /\ code_table = <<>>
    /\ pattern = <<>>
    /\ pc = "idle"
    /\ result = <<>>
    /\ emitted = <<>>
    /\ calls = <<>>
    /\ dumped = <<>>
    /\ bpc = "open"

\* Maze.mark_cell
MarkCell ==
    /\ nmarks < MaxMarks
    /\ \E c \in Cells, v \in CellValues :
          /\ grid' = [grid EXCEPT ![c] = v]
          /\ frame_box' = MarkBox(frame_box, c[1], c[2])
          /\ touched' = touched \cup {c}
    /\ num_changes' = num_changes + 1
    /\ nmarks' = nmarks + 1
    /\ last_op' = "mark_cell"
    /\ raised' = ""
    /\ UNCHANGED <<last_arg, stream, callVars, bitVars, animVars, surfaceVars>>

\* Maze.reset
MazeReset ==
    /\ num_changes' = 0
    /\ frame_box' = <<>>
    /\ touched' = {}
    /\ last_op' = "reset"
    /\ raised' = ""
    /\ UNCHANGED <<grid, nmarks, last_arg, stream, callVars, bitVars, animVars,
                   surfaceVars>>

\* self._surface.write(self._encode_frame())
Flush ==
    \E e \in {EncodeFrame(grid, frame_box, colormap, cell_size, translation,
                          delay, trans_index, stream, min_code_length)} :
        /\ stream' = e.stream
        /\ raised' = IF e.status # "ok" THEN e.status
                     ELSE IF surface = "closed" THEN "ValueError" ELSE ""
        /\ IF e.status = "ok"
           THEN /\ num_changes' = 0
                /\ frame_box' = <<>>
                /\ touched' = {}
                /\ io' = IF surface = "closed" THEN io ELSE Append(io, e.bytes)
           ELSE UNCHANGED <<num_changes, frame_box, touched, io>>
        /\ input_data' = ConsumedPixels(FramePixels(grid, colormap, FrameCells(frame_box),
                                                    cell_size))
        /\ UNCHANGED <<grid, nmarks, last_arg, min_code_length, pos, code_length, next_code,
                       code_table, pattern, pc, result, emitted, bitVars, animVars,
                       color_depth, palette, surface, saved>>

\* the operation found nothing to do
Skip ==
    /\ raised' = ""
    /\ UNCHANGED <<stream, callVars, bitVars, mazeVars, animVars, surfaceVars,
                   last_arg, touched, nmarks>>

\* Animation.refresh_frame
RefreshFrame ==
    /\ Len(io) < MaxFrames
    /\ last_op' = "refresh_frame"
    /\ IF RefreshDue(num_changes, speed) THEN Flush ELSE Skip

\* Animation.clear_remaining_changes
ClearRemainingChanges ==
    /\ Len(io) < MaxFrames
    /\ last_op' = "clear_remaining_changes"
    /\ IF ChangesRemain(num_changes) THEN Flush ELSE Skip

NextAnim == MarkCell \/ MazeReset \/ RefreshFrame \/ ClearRemainingChanges

SpecAnim == InitAnim /\ [][NextAnim]_vars

\* ---------------------------------------- the engine in more configurations
\* the arguments of set_control, set_colormap and add_maze in each run
FrameConfigs ==
    { [speed |-> 1, delay |-> 300, trans_index |-> 3, cell_size |-> 3,
       translation |-> <<0, 0>>, cmap |-> (1 :> 3 @@ 2 :> 0)],
      [speed |-> 2, delay |-> 5, trans_index |-> NoIndex, cell_size |-> 2,
       translation |-> <<3, 1>>, cmap |-> <<>>],
      [speed |-> 0, delay |-> 0, trans_index |-> 0, cell_size |-> 1,
       translation |-> <<1, 2>>, cmap |-> (0 :> 2)] }

\* GIFSurface(w, h, 2), Animation(surface), set_control(speed, delay, trans_index),
\* set_colormap(cmap), Maze(width, height, None), add_maze(maze, cell_size, translation)
InitFrame ==
    /\ color_depth = 2
    /\ io = <<>>
    /\ palette = DefaultPalette(color_depth)
    /\ surface = "open"
    /\ saved = <<>>
    /\ min_code_length = LzwLength(color_depth)
    /\ stream = EmptyStream
    /\ grid = [c \in Cells |-> 0]
    /\ num_changes = 0
    /\ frame_box = <<>>
    /\ \E cfg \in FrameConfigs :
          /\ speed = cfg.speed
          /\ delay = cfg.delay
          /\ trans_index = cfg.trans_index
          /\ cell_size = cfg.cell_size
          /\ translation = cfg.translation
          /\ colormap = SetColormap([i \in 0..(2^color_depth - 1) |-> i], cfg.cmap)
    /\ last_op = ""
    /\ last_arg = <<>>
    /\ raised = ""
    /\ touched = {}
    /\ nmarks = 0
    /\ input_data = <<>>
    /\ pos = 0
    /\ code_length = 0
    /\ next_code = 0
    /\ code_table = <<>>
    /\ pattern = <<>>
    /\ pc = "idle"
    /\ result = <<>>
    /\ emitted = <<>>
    /\ calls = <<>>
    /\ dumped = <<>>
    /\ bpc = "open"

\* the engine alone resets the maze, in its flushes
NextFrame == MarkCell \/ RefreshFrame \/ ClearRemainingChanges

SpecFrame == InitFrame /\ [][NextFrame]_vars

\* ------------------------------------------------ the engine with failures
\* a cell value that is no key of the colormap of Animation.__init__
UnmappedValue == 2^color_depth

\* the arguments of set_colormap: a color index outside the compressor's
\* alphabet for the cells of value 2, and the repair of both faults
ColormapUpdates == {(2 :> 7), (2 :> 3 @@ UnmappedValue :> 2)}

\* Maze.mark_cell with a value the colormap does not hold
MarkUnmapped ==
    /\ nmarks < MaxMarks
    /\ \E c \in Cells :
          /\ grid' = [grid EXCEPT ![c] = UnmappedValue]
          /\ frame_box' = MarkBox(frame_box, c[1], c[2])
          /\ touched' = touched \cup {c}
    /\ num_changes' = num_changes + 1
    /\ nmarks' = nmarks + 1
    /\ last_op' = "mark_cell"
    /\ raised' = ""
    /\ UNCHANGED <<last_arg, stream, callVars, bitVars, animVars, surfaceVars>>

\* Animation.set_colormap(cmap)
SetColormapCall ==
    /\ \E upd \in ColormapUpdates :
          /\ colormap' = SetColormap(colormap, upd)
          /\ colormap' # colormap
    /\ last_op' = "set_colormap"
    /\ raised' = ""
    /\ UNCHANGED <<speed, delay, trans_index, cell_size, translation, last_arg,
                   stream, callVars, bitVars, mazeVars, surfaceVars, touched, nmarks>>

\* GIFSurface.close()
Close ==
    /\ surface = "open"
    /\ surface' = "closed"
    /\ last_op' = "close"
    /\ raised' = ""
    /\ UNCHANGED <<color_depth, io, palette, saved, last_arg, stream, callVars,
                   bitVars, mazeVars, animVars, touched, nmarks>>

\* the caller goes on after failed flushes while few bits are left behind
Steady == stream.nbits < MaxFaultBits

\* a surface of color depth 2 and an engine with speed 2 and cells of 2 by 2
\* pixels
InitFault == InitFrame /\ speed = 2

NextFault ==
    \/ MarkCell
    \/ MarkUnmapped
    \/ SetColormapCall
    \/ Close
    \/ (Steady /\ RefreshFrame)
    \/ (Steady /\ ClearRemainingChanges)

SpecFault == InitFault /\ [][NextFault]_vars

\* ------------------------------------------------------------ the surface
\* GIFSurface(width, height, ...) and its loop argument
SurfaceSize == <<9, 7>>
SurfaceLoop == 3

\* the arguments <<color_depth, bg_color>> tried, NoIndex for no bg_color
SurfaceArgs == {<<0, NoIndex>>, <<1, NoIndex>>, <<2, NoIndex>>, <<2, 1>>,
                <<8, NoIndex>>, <<9, NoIndex>>}

\* the palettes tried on a surface of color depth d: the spec's three bytes,
\* one byte short, exact, two bytes long
Palettes(d) ==
    {<<0, 0, 0>>}
    \cup {[i \in 1..n |-> i % 256] : n \in {3 * 2^d - 1, 3 * 2^d, 3 * 2^d + 2}}

\* the frames handed to write
RawFrames == {<<1, 2, 3>>}

\* the rectangles <<left, top, width, height>> and the colors drawn
Rects == {<<1, 2, 2, 3>>}
RectColors(d) == {0, 2^d - 1}

\* the delays of pad_delay_frame
PadDelays == {10}

lzwLocals == <<input_data, pos, code_length, next_code, code_table, pattern, pc,
               result, emitted>>

\* nothing is constructed yet
InitSurface == InitBits

\* GIFSurface.__init__(width, height, color_depth, bg_color=bg)
NewSurface ==
    /\ surface = "none"
    /\ \E a \in SurfaceArgs :
          LET d   == a[1]
              pal == GlobalColorTable(d, DefaultPalette(d))
              bgf == IF a[2] = NoIndex THEN [status |-> "ok", bytes |-> <<>>]
                     ELSE RectangleFrame(0, 0, SurfaceSize[1], SurfaceSize[2], a[2])
          IN  /\ last_arg' = a
              /\ IF pal.status = "ok" /\ bgf.status = "ok"
                 THEN /\ surface' = "open"
                      /\ color_depth' = d
                      /\ palette' = pal.palette
                      /\ min_code_length' = LzwLength(d)
                      /\ stream' = EmptyStream
                      /\ io' = IF a[2] = NoIndex THEN <<>> ELSE <<bgf.bytes>>
                      /\ raised' = ""
                 ELSE /\ raised' = IF pal.status # "ok" THEN pal.status ELSE bgf.status
                      /\ UNCHANGED <<surface, color_depth, palette, min_code_length,
                                     stream, io>>
    /\ last_op' = "GIFSurface"
    /\ UNCHANGED <<saved, lzwLocals, bitVars, mazeVars, animVars, touched, nmarks>>

\* GIFSurface.set_palette(colors)
SetPalette ==
    /\ surface = "open"
    /\ \E colors \in Palettes(color_depth) :
          LET r == GlobalColorTable(color_depth, colors)
          IN  /\ last_arg' = colors
              /\ raised' = IF r.status = "ok" THEN "" ELSE r.status
              /\ palette' = IF r.status = "ok" THEN r.palette ELSE palette
    /\ last_op' = "set_palette"
    /\ UNCHANGED <<color_depth, io, surface, saved, stream, callVars, bitVars,
                   mazeVars, animVars, touched, nmarks>>

\* GIFSurface.write(data)
Write ==
    /\ surface = "open"
    /\ Len(io) < MaxFrames
    /\ \E data \in RawFrames :
          /\ io' = Append(io, data)
          /\ last_arg' = data
    /\ last_op' = "write"
    /\ raised' = ""
    /\ UNCHANGED <<color_depth, palette, surface, saved, stream, callVars, bitVars,
                   mazeVars, animVars, touched, nmarks>>

\* GIFSurface.rectangle(left, top, width, height, color)
Rectangle ==
    /\ surface = "open"
    /\ Len(io) < MaxFrames
    /\ \E r \in Rects, c \in RectColors(color_depth) :
          \E f \in {RectangleFrame(r[1], r[2], r[3], r[4], c)} :
              /\ last_arg' = <<r, c>>
              /\ raised' = IF f.status = "ok" THEN "" ELSE f.status
              /\ io' = IF f.status = "ok" THEN Append(io, f.bytes) ELSE io
    /\ last_op' = "rectangle"
    /\ UNCHANGED <<color_depth, palette, surface, saved, stream, callVars, bitVars,
                   mazeVars, animVars, touched, nmarks>>

\* Animation.pad_delay_frame(delay)
PadDelayFrame ==
    /\ Len(io) < MaxFrames
    /\ stream.nbits < MaxStaleBits
    /\ \E d \in PadDelays :
          \E f \in {PadFrame(d, trans_index, stream, min_code_length)} :
              /\ last_arg' = d
              /\ raised' = IF f.status = "ok" THEN "" ELSE f.status
              /\ io' = IF f.status = "ok" THEN Append(io, f.bytes) ELSE io
              /\ stream' = f.stream
    /\ last_op' = "pad_delay_frame"
    /\ UNCHANGED <<color_depth, palette, surface, saved, callVars, bitVars, mazeVars,
                   animVars, touched, nmarks>>

\* GIFSurface.save(filename)
Save ==
    /\ surface = "open"
    /\ \E h \in {GifHeader(SurfaceSize, color_depth, palette, SurfaceLoop)} :
          /\ raised' = IF h.status = "ok" THEN "" ELSE h.status
          /\ saved' = IF h.status = "ok" THEN SaveFile(h.bytes, io) ELSE <<>>
    /\ last_op' = "save"
    /\ last_arg' = <<>>
    /\ UNCHANGED <<color_depth, io, palette, surface, stream, callVars, bitVars,
                   mazeVars, animVars, touched, nmarks>>

\* nothing was saved yet: the runs end with their calls of save
Drawing == last_op # "save"

NextSurface ==
    \/ Drawing /\ NewSurface
    \/ Drawing /\ SetPalette
    \/ Drawing /\ Write
    \/ Drawing /\ Rectangle
    \/ Save

SpecSurface == InitSurface /\ [][NextSurface]_vars

\* --------------------------------------------- the engine with delay frames
NextPad == NextFrame \/ PadDelayFrame

SpecPad == InitFrame /\ [][NextPad]_vars

\* ------------------------------------------------- claims on Compression
\* a call of the compressor has ended, by returning or by raising
Ended == pc \in {"done", "KeyError"}

\* C1: for every min_code_length in [2,12] and every input over [0, 2^m),
\* the call returns and a standard decoder reads the input back from the
\* bytes returned.
C1_RoundTrip ==
    Ended => /\ pc = "done"
             /\ Decode(result).ok
             /\ Decode(result).data = input_data

\* C2: with min_code_length 2 the empty input is compressed to the clear code
\* followed at once by the end code, which decodes to the empty sequence.
C2_EmptyInput ==
    (Ended /\ min_code_length = 2 /\ input_data = <<>>)
        => /\ pc = "done"
           /\ Decode(result).codes = <<ClearCode(2), EndCode(2)>>
           /\ Decode(result).data = <<>>

\* C3: every code is emitted at a width in [min_code_length + 1, 12].
C3_WidthInRange ==
    pc # "idle" =>
        /\ code_length \in (min_code_length + 1)..MaxCodeSize
        /\ \A i \in DOMAIN emitted :
               emitted[i][2] \in (min_code_length + 1)..MaxCodeSize

\* C4: the code table never holds more than 4096 patterns.
C4_TableBound == pc # "idle" => Cardinality(DOMAIN code_table) <= max_codes

\* a clear code was emitted by the step that led to the state
Cleared(e) == \E i \in DOMAIN e : e[i][1] = ClearCode(min_code_length)

\* C5: in a step that emits no clear code the width never decreases, and it
\* grows, by exactly 1, exactly when the step inserts a pattern and leaves
\* next_code at 2^width + 1.
C5_WidthMonotone ==
    [][ (pc # "idle" /\ ~Cleared(emitted')) =>
            /\ code_length' \in {code_length, code_length + 1}
            /\ (code_length' = code_length + 1)
                   <=> (next_code' = next_code + 1 /\ next_code' = 2^code_length + 1)
      ]_vars

\* the width has just grown, in the middle of an input
C5_Witness ==
    /\ pc = "loop"
    /\ code_length = min_code_length + 2
    /\ next_code = 2^(code_length - 1) + 1
    /\ ~Cleared(emitted)

\* --------------------------------------------------- claims on DataBlock
\* the sub-blocks of a byte sequence: their length bytes and their payloads
RECURSIVE ParseBlocks(_, _)
ParseBlocks(bytes, k) ==
    IF k > Len(bytes) THEN [ok |-> TRUE, lens |-> <<>>, payload |-> <<>>]
    ELSE IF k + bytes[k] > Len(bytes) THEN [ok |-> FALSE, lens |-> <<>>, payload |-> <<>>]
    ELSE LET rest == ParseBlocks(bytes, k + bytes[k] + 1)
         IN  [ok      |-> rest.ok,
              lens    |-> <<bytes[k]>> \o rest.lens,
              payload |-> SubSeq(bytes, k + 1, k + bytes[k]) \o rest.payload]

\* the widths of cs[lo..hi], summed half by half
RECURSIVE WidthOf(_, _, _)
WidthOf(cs, lo, hi) ==
    IF lo > hi THEN 0
    ELSE IF lo = hi THEN cs[lo][2]
    ELSE WidthOf(cs, lo, (lo + hi) \div 2) + WidthOf(cs, ((lo + hi) \div 2) + 1, hi)

TotalWidth(cs, k) == WidthOf(cs, k, Len(cs))

\* reading from bit b on at the widths of cs[lo..hi] in turn gives the codes of
\* cs[lo..hi]
RECURSIVE ReadsRange(_, _, _, _, _)
ReadsRange(payload, cs, lo, hi, b) ==
    IF lo > hi THEN TRUE
    ELSE IF lo = hi THEN ReadBits(payload, b, cs[lo][2]) = cs[lo][1]
    ELSE /\ ReadsRange(payload, cs, lo, (lo + hi) \div 2, b)
         /\ ReadsRange(payload, cs, ((lo + hi) \div 2) + 1, hi,
                       b + WidthOf(cs, lo, (lo + hi) \div 2))

\* reading from bit b on at the widths of cs[k..] in turn gives the codes of cs[k..]
ReadsBack(payload, cs, k, b) == ReadsRange(payload, cs, k, Len(cs), b)

\* every code fits its width
InRange(cs) == \A i \in DOMAIN cs : cs[i][1] >= 0 /\ cs[i][1] < 2^(cs[i][2])

\* C6: after appends of codes that fit their widths and a flush, the payload
\* without its length bytes, read least significant bit first at each width in
\* turn, gives the codes back, and the bits left in the last byte are zero.
C6_BitRoundTrip ==
    (bpc = "dumped" /\ InRange(calls)) =>
        LET p == ParseBlocks(dumped, 1)
            n == TotalWidth(calls, 1)
        IN  /\ p.ok
            /\ Len(p.payload) = (n + 7) \div 8
            /\ ReadsBack(p.payload, calls, 1, 0)
            /\ \A b \in n..(8 * Len(p.payload) - 1) : BitAt(p.payload, b) = 0

\* codes that fit were flushed into more than one sub-block
C6_Witness ==
    /\ bpc = "dumped"
    /\ InRange(calls)
    /\ Len(calls) > 0
    /\ Len(dumped) > BlockSize + 1

\* C7: append(code, width) appends the width low-order bits of code, whatever
\* the code, advances the bit counter by exactly width, and leaves
\* ceil(bit_count / 8) bytes in the buffer.
C7_AppendWidth ==
    [][ calls' # calls =>
            LET c == calls'[Len(calls')]
            IN  /\ stream'.nbits = stream.nbits + c[2]
                /\ Len(stream'.bitstream) = (stream'.nbits + 7) \div 8
                /\ \A j \in 0..(c[2] - 1) :
                       BitAt(stream'.bitstream, stream.nbits + j) = (c[1] \div (2^j)) % 2
                /\ \A k \in 1..(stream.nbits \div 8) :
                       stream'.bitstream[k] = stream.bitstream[k]
      ]_vars

\* C8: flush returns sub-blocks of 1..255 payload bytes, all but the last of
\* 255, whose payloads together are the buffer; nothing for an empty buffer;
\* and it leaves the buffer empty and the bit counter 0.
C8_Flush ==
    [][ (bpc = "open" /\ bpc' = "dumped") =>
            LET p == ParseBlocks(dumped', 1)
            IN  /\ p.ok
                /\ p.payload = stream.bitstream
                /\ \A i \in DOMAIN p.lens :
                       /\ p.lens[i] \in 1..255
                       /\ i < Len(p.lens) => p.lens[i] = 255
                /\ (stream.bitstream = <<>>) => (dumped' = <<>>)
                /\ stream'.bitstream = <<>>
                /\ stream'.nbits = 0
      ]_vars

\* a buffer of exactly two full sub-blocks was flushed
C8_Witness ==
    /\ bpc = "dumped"
    /\ Len(dumped) = 2 * (BlockSize + 1)
    /\ stream = EmptyStream

\* ------------------------------------------ claims on Maze and Animation
\* the tight bounding box of a set of cells, <<>> for no cell
BBox(S) ==
    IF S = {} THEN <<>>
    ELSE <<CHOOSE a \in {c[1] : c \in S} : \A c \in S : a <= c[1],
           CHOOSE a \in {c[2] : c \in S} : \A c \in S : a <= c[2],
           CHOOSE a \in {c[1] : c \in S} : \A c \in S : a >= c[1],
           CHOOSE a \in {c[2] : c \in S} : \A c \in S : a >= c[2]>>

\* C9: after any mark_cell and reset calls the dirty rectangle is the tight
\* bounding box of the cells marked since the last reset, and it is absent
\* exactly when the change counter is 0.
C9_DirtyRect ==
    /\ frame_box = BBox(touched)
    /\ (frame_box = <<>>) <=> (num_changes = 0)

\* two cells were marked that span a rectangle of 3 by 2 cells
C9_Witness ==
    /\ last_op = "mark_cell"
    /\ num_changes = 2
    /\ touched = {<<2, 1>>, <<0, 2>>}
    /\ frame_box = <<0, 1, 2, 2>>

\* the rectangle <<left, top, width, height>> of a frame's image descriptor,
\* which follows the 8 bytes of the graphics control block
FrameRect(f) ==
    <<f[10] + 256 * f[11], f[12] + 256 * f[13],
      f[14] + 256 * f[15], f[16] + 256 * f[17]>>

\* the compressed data of a frame, after the 10 bytes of the image descriptor
FrameData(f) == SubSeq(f, 19, Len(f))

\* C10: refresh_frame writes exactly one frame and zeroes the change counter
\* when the counter has reached speed, and changes nothing otherwise; with
\* speed >= 1 it leaves the counter below speed; with speed 1 and a single
\* marked cell the frame written covers that cell alone.
C10_NotifyMutation ==
    [][ last_op' = "refresh_frame" =>
            /\ IF num_changes >= speed
               THEN /\ Len(io') = Len(io) + 1
                    /\ SubSeq(io', 1, Len(io)) = io
                    /\ num_changes' = 0
               ELSE UNCHANGED <<mazeVars, animVars, surfaceVars, stream,
                                min_code_length>>
            /\ (speed >= 1) => (num_changes' < speed')
            /\ (speed = 1 /\ nmarks = 1 /\ num_changes = 1) =>
                   LET c == CHOOSE c \in touched : TRUE
                       f == io'[Len(io')]
                   IN  /\ FrameRect(f) = <<cell_size * c[1] + translation[1],
                                           cell_size * c[2] + translation[2],
                                           cell_size, cell_size>>
                       /\ Decode(FrameData(f)).ok
                       /\ Decode(FrameData(f)).data =
                              [k \in 1..(cell_size * cell_size) |-> colormap[grid[c]]]
      ]_vars

\* with speed 1, one cell was marked and refresh_frame wrote its frame
C10_Witness ==
    /\ last_op = "refresh_frame"
    /\ speed = 1
    /\ nmarks = 1
    /\ Len(io) = 1
    /\ num_changes = 0

\* C11: clear_remaining_changes writes exactly one frame whenever the change
\* counter is nonzero, whatever the speed, and when the counter is 0 it writes
\* nothing and leaves the grid, the frames written and the configuration
\* unchanged; in both cases it leaves the counter 0 and the frame box absent.
C11_FlushIfDirty ==
    [][ last_op' = "clear_remaining_changes" =>
            /\ IF num_changes > 0
               THEN /\ Len(io') = Len(io) + 1
                    /\ SubSeq(io', 1, Len(io)) = io
               ELSE UNCHANGED <<grid, animVars, surfaceVars, stream, min_code_length>>
            /\ num_changes' = 0
            /\ frame_box' = <<>>
      ]_vars

\* with speed 2, clear_remaining_changes wrote the frame of a single change
C11_Witness ==
    /\ last_op = "clear_remaining_changes"
    /\ speed = 2
    /\ nmarks = 1
    /\ Len(io) = 1
    /\ num_changes = 0

\* the step is a flush that succeeded
Flushed ==
    /\ \/ last_op' = "refresh_frame" /\ num_changes >= speed
       \/ last_op' = "clear_remaining_changes" /\ num_changes > 0
    /\ raised' = ""

\* C12: every successful flush appends exactly one frame, made of a graphics
\* control block with the delay and the transparent index, an image descriptor
\* for a rectangle of as many pixels as were compressed, and a data block from
\* which a decoder reads those pixels; it leaves the change counter 0 and the frame box absent, and the
\* cell values, the colormap and the configuration unchanged.
C12_FlushFrame ==
    [][ Flushed =>
            LET f == io'[Len(io')]
            IN  /\ Len(io') = Len(io) + 1
                /\ SubSeq(io', 1, Len(io)) = io
                /\ SubSeq(f, 1, 8) =
                       <<33, 249, 4, IF trans_index = NoIndex THEN 4 ELSE 5,
                         delay % 256, delay \div 256,
                         IF trans_index = NoIndex THEN 0 ELSE trans_index, 0>>
                /\ f[9] = 44
                /\ f[18] = 0
                /\ FrameRect(f)[3] * FrameRect(f)[4] = Len(input_data')
                /\ FrameData(f)[1] = min_code_length
                /\ StripBlocks(FrameData(f), 2).ok
                /\ Decode(FrameData(f)).data = input_data'
                /\ num_changes' = 0
                /\ frame_box' = <<>>
                /\ UNCHANGED <<grid, animVars>>
      ]_vars

\* a frame with a transparent index and a delay of two bytes was written
C12_Witness ==
    /\ last_op \in {"refresh_frame", "clear_remaining_changes"}
    /\ Len(io) = 2
    /\ trans_index = 3
    /\ delay = 300
    /\ num_changes = 0
    /\ \E c \in Cells : grid[c] # 0

\* C13: a flush over the cell rectangle <<left, top, right, bottom>> (the frame
\* box, or the whole grid when there is none) with cell size s and translation
\* <<tx, ty>> writes the image descriptor <<s*left + tx, s*top + ty,
\* s*(right-left+1), s*(bottom-top+1)>> and compresses s*s*(right-left+1)*
\* (bottom-top+1) pixels in row-major order, the pixel at column px and row py
\* being colormap[cell <<left + px div s, top + py div s>>].
C13_PixelRect ==
    [][ Flushed =>
            LET b == IF frame_box # <<>> THEN frame_box
                     ELSE <<0, 0, MazeSize[1] - 1, MazeSize[2] - 1>>
                s == cell_size
                w == b[3] - b[1] + 1
                h == b[4] - b[2] + 1
                f == io'[Len(io')]
            IN  /\ FrameRect(f) = <<s * b[1] + translation[1], s * b[2] + translation[2],
                                    s * w, s * h>>
                /\ Len(input_data') = s * s * w * h
                /\ \A px \in 0..(s * w - 1), py \in 0..(s * h - 1) :
                       input_data'[py * (s * w) + px + 1] =
                           colormap[grid[<<b[1] + px \div s, b[2] + py \div s>>]]
      ]_vars

\* a frame of 2 by 2 cells of 2 by 2 pixels in more than one color was written
C13_Witness ==
    /\ last_op \in {"refresh_frame", "clear_remaining_changes"}
    /\ Len(io) = 1
    /\ cell_size = 2
    /\ FrameRect(io[1])[3] = 4
    /\ FrameRect(io[1])[4] = 4
    /\ \E i, j \in DOMAIN input_data : input_data[i] # input_data[j]

\* ------------------------------------------------- claims on the surface
\* C14: in every configuration of the engine, also with no transparent index
\* set, pad_delay_frame(delay) appends exactly one frame (a graphics control
\* block with the delay, the image descriptor <<0, 0, 1, 1>>, the compressed
\* data of one pixel) and leaves the grid, the change counter and the frame
\* box unchanged.
C14_PadDelayFrame ==
    [][ last_op' = "pad_delay_frame" =>
            LET f == io'[Len(io')]
            IN  /\ Len(io') = Len(io) + 1
                /\ SubSeq(io', 1, Len(io)) = io
                /\ SubSeq(f, 1, 3) = <<33, 249, 4>>
                /\ f[5] + 256 * f[6] = last_arg'
                /\ SubSeq(f, 9, 18) = <<44, 0, 0, 0, 0, 1, 0, 1, 0, 0>>
                /\ Len(Decode(FrameData(f)).data) = 1
                /\ UNCHANGED mazeVars
      ]_vars

\* C15: GIFSurface(...) with an integer color_depth outside [1, 8] raises an
\* error before a palette, a compressor or a frame is set up, and with a
\* color_depth in [1, 8] it succeeds.
C15_ColorDepthChecked ==
    [][ last_op' = "GIFSurface" =>
            IF last_arg'[1] \in 1..8
            THEN /\ surface' = "open"
                 /\ raised' = ""
            ELSE /\ surface' = "none"
                 /\ raised' = "ValueError"
                 /\ UNCHANGED <<palette, min_code_length, stream, io>>
      ]_vars

\* C16: set_palette(colors) on a surface of color depth d raises an error and
\* keeps the stored palette when len(colors) < 3 * 2^d, and otherwise stores
\* exactly the first 3 * 2^d bytes of colors; the stored palette of a surface
\* always has 3 * 2^d bytes.
C16_SetPalette ==
    [][ /\ last_op' = "set_palette" =>
               IF Len(last_arg') < 3 * 2^color_depth
               THEN /\ raised' = "ValueError"
                    /\ palette' = palette
               ELSE /\ raised' = ""
                    /\ palette' = [i \in 1..(3 * 2^color_depth) |-> last_arg'[i]]
        /\ surface' = "open" => Len(palette') = 3 * 2^color_depth'
      ]_vars

\* a palette longer than needed was stored, cut to its first 3 * 2^d bytes
C16_Witness ==
    /\ last_op = "set_palette"
    /\ raised = ""
    /\ Len(last_arg) > 3 * 2^color_depth
    /\ Len(palette) = 3 * 2^color_depth
    /\ palette[Len(palette)] = last_arg[Len(palette)]
    /\ palette[Len(palette)] # 0

\* the bytes of an image descriptor for the rectangle r, without flags
DescriptorOf(r) ==
    <<44, r[1] % 256, r[1] \div 256, r[2] % 256, r[2] \div 256,
      r[3] % 256, r[3] \div 256, r[4] % 256, r[4] \div 256, 0>>

\* the image f is the rectangle r filled with color c, compressed with
\* min_code_length 2
SolidImage(f, r, c) ==
    /\ SubSeq(f, 1, 10) = DescriptorOf(r)
    /\ f[11] = 2
    /\ Decode(SubSeq(f, 11, Len(f))).data = [i \in 1..(r[3] * r[4]) |-> c]

\* C17: rectangle(left, top, width, height, color), for every color in
\* [0, 2^color_depth) and width, height >= 1, appends exactly one image, the
\* descriptor of the rectangle followed by data compressed with
\* min_code_length 2 that decodes to width * height copies of color, and
\* leaves the surface's compressor unchanged; GIFSurface(...) with a bg_color
\* writes exactly this for the whole canvas.
C17_Rectangle ==
    [][ /\ (last_op' = "rectangle" /\ last_arg'[2] \in 0..(2^color_depth - 1)) =>
               /\ raised' = ""
               /\ Len(io') = Len(io) + 1
               /\ SubSeq(io', 1, Len(io)) = io
               /\ SolidImage(io'[Len(io')], last_arg'[1], last_arg'[2])
               /\ UNCHANGED <<min_code_length, stream>>
        /\ (last_op' = "GIFSurface" /\ surface' = "open" /\ last_arg'[2] # NoIndex) =>
               /\ Len(io') = 1
               /\ SolidImage(io'[1], <<0, 0, SurfaceSize[1], SurfaceSize[2]>>,
                             last_arg'[2])
      ]_vars

\* C18: save writes the screen descriptor, the global color table, the loop
\* control block, the bytes of all writes in their order and the trailer byte
\* 59, whatever was written before; it leaves the writes untouched, and a
\* second save writes the same bytes.
C18_Export ==
    [][ last_op' = "save" =>
            LET n    == 3 * 2^color_depth
                body == GetValue(io, 1)
            IN  /\ raised' = ""
                /\ Len(saved') = 13 + n + 19 + Len(body) + 1
                /\ SubSeq(saved', 1, 10) =
                       <<71, 73, 70, 56, 57, 97, SurfaceSize[1] % 256,
                         SurfaceSize[1] \div 256, SurfaceSize[2] % 256,
                         SurfaceSize[2] \div 256>>
                /\ (color_depth \in 1..8) =>
                       saved'[11] = 128 + 17 * (color_depth - 1)
                /\ SubSeq(saved', 12, 13) = <<0, 0>>
                /\ SubSeq(saved', 14, 13 + n) = palette
                /\ SubSeq(saved', 14 + n, 32 + n) =
                       <<33, 255, 11, 78, 69, 84, 83, 67, 65, 80, 69, 50, 46, 48, 3, 1,
                         SurfaceLoop % 256, SurfaceLoop \div 256, 0>>
                /\ SubSeq(saved', 33 + n, Len(saved') - 1) = body
                /\ saved'[Len(saved')] = 59
                /\ io' = io
                /\ (last_op = "save") => (saved' = saved)
      ]_vars

\* the loop is about to insert the pattern that brings next_code to max_codes
Filling ==
    /\ pc = "loop"
    /\ pos < Len(input_data)
    /\ next_code = max_codes - 1
    /\ Append(pattern, input_data[pos + 1]) \notin DOMAIN code_table

\* C19: when an insertion brings next_code to 4096, the step emits the
\* prefix code of the pattern and then the clear code, both at the width
\* in effect before, and leaves the width at min_code_length + 1, the table
\* with exactly the single-symbol entries, next_code at end_code + 1 and the
\* symbol just read as the pattern; every code of the loop and of the return,
\* those after a reset included, is written at the width the step starts with.
C19_TableReset ==
    [][ /\ Filling =>
               /\ emitted' = << <<code_table[pattern], code_length>>,
                                <<2^min_code_length, code_length>> >>
               /\ ReadsBack(stream'.bitstream, emitted', 1, stream.nbits)
               /\ stream'.nbits = stream.nbits + 2 * code_length
               /\ code_length' = min_code_length + 1
               /\ DOMAIN code_table' = {<<i>> : i \in 0..(2^min_code_length - 1)}
               /\ \A i \in 0..(2^min_code_length - 1) : code_table'[<<i>>] = i
               /\ next_code' = 2^min_code_length + 2
               /\ pattern' = <<input_data[pos + 1]>>
        /\ (pc = "loop" /\ emitted' # <<>>) =>
               /\ emitted'[1][2] = code_length
               /\ (pc' = "loop") =>
                      ReadBits(stream'.bitstream, stream.nbits, code_length)
                          = emitted'[1][1]
      ]_vars

\* the table was reset on the way, and the first code after the reset has
\* been written at 9 bits
C19_Witness ==
    /\ pc = "loop"
    /\ min_code_length = 8
    /\ pos > ResetStart(8)
    /\ next_code = 2^8 + 3
    /\ Len(emitted) = 1
    /\ emitted[1][2] = 9

\* the step made a call of the surface's compressor
Compressing ==
    \/ last_op' = "refresh_frame" /\ num_changes >= speed
    \/ last_op' = "clear_remaining_changes" /\ num_changes > 0
    \/ last_op' = "pad_delay_frame"

\* C21: in any sequence of compress calls on the surface's compressor, failed
\* calls included, the bit buffer is empty when a call starts, and a call
\* that succeeds returns the bytes a fresh compressor of the same
\* min_code_length returns for the same pixels.
C21_FreshEachCall ==
    [][ Compressing =>
            /\ stream = EmptyStream
            /\ (raised' = "") =>
                   FrameData(io'[Len(io')]) =
                       Compress(EmptyStream, min_code_length,
                                IF last_op' = "pad_delay_frame"
                                THEN <<trans_index>> ELSE input_data').bytes
      ]_vars

\* C22: while the container stays open, in any run of marks, refresh_frame
\* and clear_remaining_changes calls, a frame that is written covers every
\* cell marked since the frame before it and its data decodes to the colors
\* of the cell values held at the flush; marked cells stop being pending
\* only when such a frame is written, and none is pending once
\* clear_remaining_changes has returned.
C22_NoMutationLost ==
    [][ (last_op' \in {"refresh_frame", "clear_remaining_changes"} /\ surface = "open") =>
            /\ (touched' # touched) => (Len(io') = Len(io) + 1)
            /\ (Len(io') = Len(io) + 1) =>
                   LET f    == io'[Len(io')]
                       r    == FrameRect(f)
                       s    == cell_size
                       left == (r[1] - translation[1]) \div s
                       top  == (r[2] - translation[2]) \div s
                       px   == Decode(FrameData(f)).data
                   IN  /\ \A c \in touched :
                              /\ c[1] \in left..(left + r[3] \div s - 1)
                              /\ c[2] \in top..(top + r[4] \div s - 1)
                       /\ Len(px) = r[3] * r[4]
                       /\ \A x \in 0..(r[3] - 1), y \in 0..(r[4] - 1) :
                              px[y * r[3] + x + 1] =
                                  colormap[grid[<<left + x \div s, top + y \div s>>]]
            /\ (last_op' = "clear_remaining_changes" /\ raised' = "") => (touched' = {})
      ]_vars

\* C23: a flush that fails, for a cell value missing from the colormap, a
\* color index outside the compressor's alphabet or a closed container,
\* appends no frame and leaves the cell values, the change counter and the
\* frame box as they were.
C23_FailedFlushKeepsState ==
    [][ (last_op' \in {"refresh_frame", "clear_remaining_changes"} /\ raised' # "") =>
            /\ io' = io
            /\ UNCHANGED <<grid, num_changes, frame_box>>
      ]_vars

\* C20: whatever the speed, refresh_frame and clear_remaining_changes write
\* nothing when the change counter is 0.
C20_IdleWritesNothing ==
    [][ (last_op' \in {"refresh_frame", "clear_remaining_changes"} /\ num_changes = 0)
            => io' = io ]_vars

====
